---------------------------- MODULE Spec2Model ----------------------------
(* The runtime authority of core/tauri/src/ipc/authority.rs: the command   *)
(* resolver (resolve_access), the origin matcher and the typed scope cache *)
(* (ScopeManager), as a state machine.                                     *)
EXTENDS Integers, Sequences, FiniteSets, TLC

VARIABLES
  allowed_commands,    \* RuntimeAuthority.allowed_commands : BTreeMap<CommandKey, ResolvedCommand>
  denied_commands,     \* RuntimeAuthority.denied_commands  : BTreeMap<CommandKey, ResolvedCommand>
  command_scope,       \* ScopeManager.command_scope : BTreeMap<ScopeKey, ResolvedScope>
  global_scope,        \* ScopeManager.global_scope  : BTreeMap<String, ResolvedScope>
  command_cache,       \* ScopeManager.command_cache : BTreeMap<ScopeKey, TypeMap>
  global_scope_cache,  \* ScopeManager.global_scope_cache : TypeMap
  callers,             \* one record per thread calling into the authority
  calls,               \* number of calls started so far
  deserializations,    \* number of T::deserialize calls made so far, per request target and type
  ret,                 \* the last resolve_access call and what it returned
  acl,                 \* RuntimeAuthority.acl : BTreeMap<String, Manifest> (debug builds)
  diagnosis,           \* the last resolve_access_message call and what it returned
  earlier              \* one earlier resolve_access call and what it returned

vars == <<allowed_commands, denied_commands, command_scope, global_scope,
          command_cache, global_scope_cache, callers, calls, deserializations,
          ret, acl, diagnosis, earlier>>

tables == <<allowed_commands, denied_commands>>
stores == <<command_scope, global_scope>>
observed == <<ret, diagnosis, earlier>>

-----------------------------------------------------------------------------
(* Option<T> *)
None == <<>>
Some(v) == <<v>>
IsSome(o) == o # <<>>
Unwrap(o) == o[1]

-----------------------------------------------------------------------------
(* Strings that are matched by globs are sequences of characters.          *)
Chars == {"a", "b"}
Star == "*"

\* The strings the callers pass as window label and as origin domain.
Labels == {<<"a">>, <<"b">>, <<"a", "b">>}

\* glob::Pattern values that the tables hold as window and domain patterns.
DomainPatterns == {<<"a", Star>>, <<Star>>}

\* The Vec<Pattern> values that the tables hold as window patterns.
WindowLists == {<<>>, << <<"a">> >>, << <<"b">>, <<"a", Star>> >>}

\* glob::Pattern::matches, for patterns made of literal characters and '*'.
RECURSIVE PatternMatches(_, _)
PatternMatches(pattern, str) ==
  IF pattern = <<>> THEN str = <<>>
  ELSE IF Head(pattern) = Star
       THEN \/ PatternMatches(Tail(pattern), str)
            \/ str # <<>> /\ PatternMatches(pattern, Tail(str))
       ELSE /\ str # <<>>
            /\ Head(str) = Head(pattern)
            /\ PatternMatches(Tail(pattern), Tail(str))

\* Byte order of the characters ('*' is 0x2A, 'a' 0x61, 'b' 0x62).
CharRank(c) == CASE c = Star -> 0 [] c = "a" -> 1 [] c = "b" -> 2

\* String::cmp on the pattern text: lexicographic.
RECURSIVE StrLess(_, _)
StrLess(s, t) ==
  IF t = <<>> THEN FALSE
  ELSE IF s = <<>> THEN TRUE
  ELSE IF Head(s) = Head(t) THEN StrLess(Tail(s), Tail(t))
  ELSE CharRank(Head(s)) < CharRank(Head(t))

-----------------------------------------------------------------------------
(* Origin and ExecutionContext *)
Local == [tag |-> "Local", domain |-> <<>>]
Remote(d) == [tag |-> "Remote", domain |-> d]

Origins == {Local} \cup {Remote(d) : d \in Labels}
ExecutionContexts == {Local} \cup {Remote(p) : p \in DomainPatterns}

\* Origin::matches with the catch-all arm answering for a Local context.
OriginMatches_local_context_any(origin, context) ==
  CASE context.tag = "Local" -> TRUE
    [] origin.tag = "Remote" /\ context.tag = "Remote" ->
         PatternMatches(context.domain, origin.domain)
    [] OTHER -> FALSE

\* Origin::matches comparing the domain with the pattern's text.
OriginMatches_exact_domain(origin, context) ==
  CASE origin.tag = "Local" /\ context.tag = "Local" -> TRUE
    [] origin.tag = "Remote" /\ context.tag = "Remote" ->
         context.domain = origin.domain
    [] OTHER -> FALSE

\* Origin::matches
OriginMatches(origin, context) ==
  CASE origin.tag = "Local" /\ context.tag = "Local" -> TRUE
    [] origin.tag = "Remote" /\ context.tag = "Remote" ->
         PatternMatches(context.domain, origin.domain)
    [] OTHER -> FALSE

-----------------------------------------------------------------------------
(* CommandKey and ResolvedCommand *)

\* The command names of the tables and of the calls, in String order.
CommandNames == <<"my-command", "plugin:fs|read">>
NameSet == {CommandNames[i] : i \in 1..Len(CommandNames)}
NameRank(n) == CHOOSE i \in 1..Len(CommandNames) : CommandNames[i] = n

CommandKey(name, context) == [name |-> name, context |-> context]
CommandKeys == {CommandKey(n, c) : n \in NameSet, c \in ExecutionContexts}

\* Ord of ExecutionContext: Local before Remote, Remote by domain pattern.
ContextLess(a, b) ==
  CASE a.tag = "Local" -> b.tag = "Remote"
    [] b.tag = "Local" -> FALSE
    [] OTHER -> StrLess(a.domain, b.domain)

\* Ord of CommandKey: by name, then by context. The BTreeMaps iterate in it.
CommandKeyLess(a, b) ==
  \/ NameRank(a.name) < NameRank(b.name)
  \/ a.name = b.name /\ ContextLess(a.context, b.context)

\* Iterator::find over a BTreeMap: the first, in key order, of the keys that
\* satisfy the predicate, given as the set of those keys.
FindFirst(hits) ==
  IF hits = {} THEN None
  ELSE Some(CHOOSE k \in hits : \A j \in hits : j = k \/ CommandKeyLess(k, j))

\* Iteration over a BTreeMap keyed by CommandKey: the keys of a set in key order.
RECURSIVE ValuesInCommandKeyOrder(_)
ValuesInCommandKeyOrder(keys) ==
  IF keys = {} THEN <<>>
  ELSE LET first == Unwrap(FindFirst(keys))
       IN <<first>> \o ValuesInCommandKeyOrder(keys \ {first})

\* ResolvedCommand { windows, scope, ..Default::default() }
ResolvedCommand(windows, scope) ==
  [windows |-> windows, scope |-> scope, referenced_by |-> <<>>]

AnyWindowMatches(resolved, window) ==
  \E i \in 1..Len(resolved.windows) : PatternMatches(resolved.windows[i], window)

\* resolve_access without the check of the denied table.
resolve_access_allow_only(allowed, denied, command, window, origin) ==
  LET Hit(cmd) == cmd.name = command /\ OriginMatches(origin, cmd.context)
      found == FindFirst({cmd \in DOMAIN allowed : Hit(cmd)})
  IN IF IsSome(found) /\ AnyWindowMatches(allowed[Unwrap(found)], window)
     THEN Some([key |-> Unwrap(found), resolved |-> allowed[Unwrap(found)]])
     ELSE None

\* resolve_access that takes the first entry that also matches the window.
resolve_access_fall_through(allowed, denied, command, window, origin) ==
  IF \E cmd \in DOMAIN denied :
       cmd.name = command /\ OriginMatches(origin, cmd.context)
  THEN None
  ELSE LET Hit(cmd) == /\ cmd.name = command /\ OriginMatches(origin, cmd.context)
                       /\ AnyWindowMatches(allowed[cmd], window)
           found == FindFirst({cmd \in DOMAIN allowed : Hit(cmd)})
       IN IF IsSome(found)
          THEN Some([key |-> Unwrap(found), resolved |-> allowed[Unwrap(found)]])
          ELSE None

\* resolve_access whose denied entries deny only on the windows they name.
resolve_access_deny_on_window(allowed, denied, command, window, origin) ==
  IF \E cmd \in DOMAIN denied :
       /\ cmd.name = command /\ OriginMatches(origin, cmd.context)
       /\ AnyWindowMatches(denied[cmd], window)
  THEN None
  ELSE LET Hit(cmd) == cmd.name = command /\ OriginMatches(origin, cmd.context)
           found == FindFirst({cmd \in DOMAIN allowed : Hit(cmd)})
       IN IF IsSome(found) /\ AnyWindowMatches(allowed[Unwrap(found)], window)
          THEN Some([key |-> Unwrap(found), resolved |-> allowed[Unwrap(found)]])
          ELSE None

\* resolve_access that answers from the last granted call of the same command.
resolve_access_memo(allowed, denied, command, window, origin) ==
  IF IsSome(ret) /\ Unwrap(ret).command = command /\ IsSome(Unwrap(ret).result)
  THEN Unwrap(ret).result
  ELSE IF \E cmd \in DOMAIN denied :
            cmd.name = command /\ OriginMatches(origin, cmd.context)
       THEN None
       ELSE LET Hit(cmd) == cmd.name = command /\ OriginMatches(origin, cmd.context)
                found == FindFirst({cmd \in DOMAIN allowed : Hit(cmd)})
            IN IF IsSome(found) /\ AnyWindowMatches(allowed[Unwrap(found)], window)
               THEN Some([key |-> Unwrap(found), resolved |-> allowed[Unwrap(found)]])
               ELSE None

\* RuntimeAuthority::resolve_access. A returned reference is the map entry:
\* its key and the ResolvedCommand stored under it.
resolve_access(allowed, denied, command, window, origin) ==
  IF \E cmd \in DOMAIN denied :
       cmd.name = command /\ OriginMatches(origin, cmd.context)
  THEN None
  ELSE LET Hit(cmd) == cmd.name = command /\ OriginMatches(origin, cmd.context)
           found == FindFirst({cmd \in DOMAIN allowed : Hit(cmd)})
       IN IF IsSome(found) /\ AnyWindowMatches(allowed[Unwrap(found)], window)
          THEN Some([key |-> Unwrap(found), resolved |-> allowed[Unwrap(found)]])
          ELSE None

-----------------------------------------------------------------------------
(* resolve_access_message (debug builds): the plugin manifests, the        *)
(* expansion of permission sets, and the message.                          *)

PermissionSet(identifier, permissions) ==
  [identifier |-> identifier, permissions |-> permissions]

Permission(identifier, allow) ==
  [identifier |-> identifier, commands |-> [allow |-> allow]]

Manifest(default_permission, permission_sets, permissions) ==
  [default_permission |-> default_permission,
   permission_sets |-> permission_sets,
   permissions |-> permissions]

\* The identifiers of the manifests, in the order of String.
Identifiers == <<"all", "allow-read", "base", "default", "extra">>
IdRank(id) == CHOOSE i \in 1..Len(Identifiers) : Identifiers[i] = id

\* Vec::contains
Contains(seq, x) == \E i \in 1..Len(seq) : seq[i] = x

\* BTreeMap::values of a map keyed by identifiers: the values in key order.
RECURSIVE ValuesInKeyOrder(_)
ValuesInKeyOrder(map) ==
  IF DOMAIN map = {} THEN <<>>
  ELSE LET first == CHOOSE k \in DOMAIN map :
                      \A j \in DOMAIN map : IdRank(k) <= IdRank(j)
       IN <<map[first]>> \o
          ValuesInKeyOrder([k \in DOMAIN map \ {first} |-> map[k]])

\* Vec<String>::sort
RECURSIVE SortIdentifiers(_)
SortIdentifiers(seq) ==
  IF seq = <<>> THEN <<>>
  ELSE LET least == CHOOSE i \in 1..Len(seq) :
                      \A j \in 1..Len(seq) :
                        IdRank(seq[i]) < IdRank(seq[j]) \/
                        (IdRank(seq[i]) = IdRank(seq[j]) /\ i <= j)
       IN <<seq[least]>> \o
          SortIdentifiers([i \in 1..(Len(seq) - 1) |->
                             IF i < least THEN seq[i] ELSE seq[i + 1]])

\* What a call of has_permissions_allowing_command comes to: it returns true
\* or false, or its recursion never ends and the thread overflows its stack.
StackOverflow == "stack overflow"

RECURSIVE has_permissions_allowing_command(_, _, _, _)
RECURSIVE PermissionsLoop(_, _, _, _, _)

\* Lines 109-125: the loop over set.permissions from its i-th element on.
\* stack holds the sets of the calls in progress.
PermissionsLoop(manifest, permissions, i, command, stack) ==
  IF i > Len(permissions) THEN "false"
  ELSE LET permission_id == permissions[i]
           found ==
             IF permission_id = "default"
             THEN IF IsSome(manifest.default_permission)
                  THEN has_permissions_allowing_command(
                         manifest, Unwrap(manifest.default_permission), command, stack)
                  ELSE "false"
             ELSE IF permission_id \in DOMAIN manifest.permission_sets
             THEN has_permissions_allowing_command(
                    manifest, manifest.permission_sets[permission_id], command, stack)
             ELSE IF permission_id \in DOMAIN manifest.permissions
             THEN IF Contains(manifest.permissions[permission_id].commands.allow, command)
                  THEN "true" ELSE "false"
             ELSE "false"
       IN IF found = "false"
          THEN PermissionsLoop(manifest, permissions, i + 1, command, stack)
          ELSE found

\* Lines 104-127. The function is deterministic in (manifest, set, command):
\* a call that reaches a call for a set already in progress repeats itself
\* without end, each time one frame deeper.
has_permissions_allowing_command(manifest, set, command, stack) ==
  IF set \in stack THEN StackOverflow
  ELSE PermissionsLoop(manifest, set.permissions, 1, command, stack \cup {set})

\* The command names resolve_access_message is asked about.
CommandArgs == {"read", "write"}

\* format!("plugin:{plugin}|{command_name}")
FormatCommand(plugin, command_name) ==
  CASE plugin = "fs" /\ command_name = "read" -> "plugin:fs|read"
    [] plugin = "fs" /\ command_name = "write" -> "plugin:fs|write"
    [] plugin = "http" /\ command_name = "read" -> "plugin:http|read"
    [] plugin = "http" /\ command_name = "write" -> "plugin:http|write"

\* print_references: one "capability: {}, permission: {}" per reference, in
\* the order of referenced_by, joined by " || ".
print_references(resolved) ==
  [i \in 1..Len(resolved.referenced_by) |->
     <<"capability", resolved.referenced_by[i].capability,
       "permission", resolved.referenced_by[i].permission>>]

\* Lines 195-198: "[local]" or "[remote: {domain}]".
ContextText(context) ==
  IF context.tag = "Local" THEN <<"local">> ELSE <<"remote", context.domain>>

\* permission_error_detail that takes a plugin without a manifest for one
\* with an empty manifest.
permission_error_detail_empty_manifest(manifests, plugin, command_name) ==
  [overflow |-> FALSE, kind |-> "Permissions associated with this command",
   permissions |-> <<>>]

\* Lines 155-186: permission_error_detail. The three probes of lines 158-172
\* all run before the list is sorted; one that overflows the stack ends the
\* thread.
permission_error_detail(manifests, plugin, command_name) ==
  IF plugin \notin DOMAIN manifests
  THEN [overflow |-> FALSE, kind |-> "Plugin did not define its manifest",
        permissions |-> <<>>]
  ELSE LET manifest == manifests[plugin]
           Allows(set) ==
             has_permissions_allowing_command(manifest, set, command_name, {})
           default == IF IsSome(manifest.default_permission)
                      THEN Allows(Unwrap(manifest.default_permission))
                      ELSE "false"
           sets == ValuesInKeyOrder(manifest.permission_sets)
           permissions == ValuesInKeyOrder(manifest.permissions)
           SetAllows(set) == Allows(set) = "true"
           PermissionAllows(permission) ==
             Contains(permission.commands.allow, command_name)
           set_hits == SelectSeq(sets, SetAllows)
           permission_hits == SelectSeq(permissions, PermissionAllows)
           permissions_referencing_command ==
             (IF default = "true" THEN <<"default">> ELSE <<>>)
             \o [i \in 1..Len(set_hits) |-> set_hits[i].identifier]
             \o [i \in 1..Len(permission_hits) |-> permission_hits[i].identifier]
           sorted == SortIdentifiers(permissions_referencing_command)
       IN IF \/ default = StackOverflow
             \/ \E i \in 1..Len(sets) : Allows(sets[i]) = StackOverflow
          THEN [overflow |-> TRUE, kind |-> StackOverflow, permissions |-> <<>>]
          ELSE [overflow |-> FALSE,
                kind |-> "Permissions associated with this command",
                permissions |-> [i \in 1..Len(sorted) |-> <<plugin, sorted[i]>>]]

\* What a call of resolve_access_message comes to.
ReturnsMessage(text) == [outcome |-> "returned", text |-> Some(text)]
Overflows == [outcome |-> StackOverflow, text |-> None]

\* Lines 129-212: RuntimeAuthority::resolve_access_message. A message is the
\* record of its fixed text (kind) and of the values formatted into it.
resolve_access_message(manifests, allowed, denied, plugin, command_name, window, origin) ==
  LET command == FormatCommand(plugin, command_name)
      denying == FindFirst({cmd \in DOMAIN denied :
                              cmd.name = command /\ OriginMatches(origin, cmd.context)})
      command_matches == {cmd \in DOMAIN allowed : cmd.name = command}
      found == FindFirst({cmd \in command_matches : OriginMatches(origin, cmd.context)})
      matches == ValuesInCommandKeyOrder(command_matches)
      detail == permission_error_detail(manifests, plugin, command_name)
  IN IF IsSome(denying)
     THEN ReturnsMessage(
            [kind |-> "denied on origin", plugin |-> plugin,
             command_name |-> command_name, origin |-> origin,
             referenced_by |-> print_references(denied[Unwrap(denying)])])
     ELSE IF IsSome(found)
     THEN IF AnyWindowMatches(allowed[Unwrap(found)], window)
          THEN ReturnsMessage([kind |-> "allowed"])
          ELSE ReturnsMessage(
                 [kind |-> "not allowed on window", plugin |-> plugin,
                  command_name |-> command_name, window |-> window,
                  expected |-> allowed[Unwrap(found)].windows,
                  referenced_by |-> print_references(allowed[Unwrap(found)])])
     ELSE IF detail.overflow THEN Overflows
     ELSE IF command_matches = {}
     THEN ReturnsMessage(
            [kind |-> "not allowed", plugin |-> plugin,
             command_name |-> command_name, detail |-> detail])
     ELSE ReturnsMessage(
            [kind |-> "not allowed on origin", plugin |-> plugin,
             command_name |-> command_name, origin |-> origin,
             found |-> [i \in 1..Len(matches) |->
                          [context |-> ContextText(matches[i].context),
                           referenced_by |-> print_references(allowed[matches[i]])]],
             detail |-> detail])

-----------------------------------------------------------------------------
(* Raw scope values, scope object types and T::deserialize *)

\* tauri_utils::acl::Value: the raw values of the scope stores.
Values == {[kind |-> "String", data |-> "a"], [kind |-> "Number", data |-> "1"]}

\* The concrete types T the command handlers ask for.
Types == {"String", "Number"}

\* ScopeObject::deserialize (serde_json::from_value): a raw value converts to
\* T when its kind is T, and the conversion fails otherwise.
Deserialize(T, raw) ==
  IF raw.kind = T THEN Some([type |-> T, data |-> raw.data]) ELSE None

\* One "for raw in list { out.push(T::deserialize(raw)?) }" loop: the values
\* pushed, whether the loop ran to its end, and the number of deserialize calls.
RECURSIVE DeserializeList(_, _)
DeserializeList(T, raws) ==
  IF raws = <<>> THEN [ok |-> TRUE, values |-> <<>>, n |-> 0]
  ELSE LET first == Deserialize(T, Head(raws))
       IN IF ~IsSome(first) THEN [ok |-> FALSE, values |-> <<>>, n |-> 1]
          ELSE LET rest == DeserializeList(T, Tail(raws))
               IN [ok |-> rest.ok,
                   values |-> IF rest.ok THEN <<Unwrap(first)>> \o rest.values ELSE <<>>,
                   n |-> 1 + rest.n]

ScopeValue(allow, deny) == [allow |-> allow, deny |-> deny]
EmptyScopeValue == ScopeValue(<<>>, <<>>)
ResolvedScope(allow, deny) == [allow |-> allow, deny |-> deny]

Ok(v) == [tag |-> "Ok", value |-> Some(v)]
CannotDeserializeScope == [tag |-> "CannotDeserializeScope", value |-> None]

\* Materialization that runs the deny loop before the allow loop.
Materialize_deny_first(T, scope) ==
  LET a == DeserializeList(T, scope.allow)
      d == DeserializeList(T, scope.deny)
  IN IF ~d.ok THEN [result |-> CannotDeserializeScope, n |-> d.n]
     ELSE IF ~a.ok THEN [result |-> CannotDeserializeScope, n |-> d.n + a.n]
     ELSE [result |-> Ok(ScopeValue(a.values, d.values)), n |-> a.n + d.n]

\* The allow loop, then the deny loop, then ScopeValue { allow, deny }:
\* the result and the number of deserialize calls made.
Materialize(T, scope) ==
  LET a == DeserializeList(T, scope.allow)
      d == DeserializeList(T, scope.deny)
  IN IF ~a.ok THEN [result |-> CannotDeserializeScope, n |-> a.n]
     ELSE IF ~d.ok THEN [result |-> CannotDeserializeScope, n |-> a.n + d.n]
     ELSE [result |-> Ok(ScopeValue(a.values, d.values)), n |-> a.n + d.n]

-----------------------------------------------------------------------------
(* TypeMap: at most one value per type *)
EmptyTypeMap == [T \in Types |-> None]

\* TypeMap::try_get
TryGet(map, T) == map[T]

\* TypeMap::set with the test inverted: it stores only over an existing value.
TypeMapSet_inverted(map, T, v) == IF IsSome(map[T]) THEN [map EXCEPT ![T] = Some(v)] ELSE map

\* TypeMap::set as an insert: the new value replaces the stored one.
TypeMapSet_overwrite(map, T, v) == [map EXCEPT ![T] = Some(v)]

\* TypeMap::set on a map that keeps one value for all types: the value fills
\* every empty slot.
TypeMapSet_all_types(map, T, v) ==
  [U \in DOMAIN map |-> IF IsSome(map[U]) THEN map[U] ELSE Some(v)]

\* TypeMap::set: stores the value unless one of that type is already there.
TypeMapSet(map, T, v) == IF IsSome(map[T]) THEN map ELSE [map EXCEPT ![T] = Some(v)]

-----------------------------------------------------------------------------
(* Construction *)

ScopeKeys == {1, 2}
Plugins == {"fs", "http"}

\* The threads that call into the shared authority.
Callers == {1, 2}

\* The ResolvedScope values of the resolved ACLs.
RawLists == {<<>>} \cup {<<v>> : v \in Values}
ResolvedScopes == {ResolvedScope(a, d) : a \in RawLists, d \in RawLists}

EmptyMap == [k \in {} |-> None]

\* A construction that creates caches only for the scope keys whose raw
\* scope holds a value.
NewCommandCache_skips_empty(resolved_command_scope) ==
  [key \in {k \in DOMAIN resolved_command_scope :
              resolved_command_scope[k] # ResolvedScope(<<>>, <<>>)} |-> EmptyTypeMap]

\* RuntimeAuthority::new: one empty TypeMap per key of resolved_acl.command_scope.
NewCommandCache(resolved_command_scope) ==
  [key \in DOMAIN resolved_command_scope |-> EmptyTypeMap]

IdleCaller == [pc |-> "idle", op |-> "none", key |-> 0, plugin |-> "", type |-> "",
               hit |-> FALSE, ndeser |-> 0, value |-> None, result |-> None, panic |-> "",
               arg |-> "none", item |-> None]

NoDeserializations ==
  [command |-> [k \in ScopeKeys |-> [T \in Types |-> 0]],
   global |-> [p \in Plugins |-> [T \in Types |-> 0]]]

\* The state RuntimeAuthority::new builds from a resolved ACL.
New(resolved_acl) ==
  /\ allowed_commands = resolved_acl.allowed_commands
  /\ denied_commands = resolved_acl.denied_commands
  /\ command_scope = resolved_acl.command_scope
  /\ global_scope = resolved_acl.global_scope
  /\ command_cache = NewCommandCache(resolved_acl.command_scope)
  /\ global_scope_cache = EmptyTypeMap
  /\ callers = [c \in Callers |-> IdleCaller]
  /\ calls = 0
  /\ deserializations = NoDeserializations
  /\ ret = None
  /\ acl = IF "acl" \in DOMAIN resolved_acl THEN resolved_acl.acl ELSE EmptyMap
  /\ diagnosis = None
  /\ earlier = None

-----------------------------------------------------------------------------
(* resolve_access, called by the IPC dispatch layer *)

ResolveAccess(command, window, origin) ==
  /\ ret = None
  /\ ret' = Some([command |-> command, window |-> window, origin |-> origin,
                  result |-> resolve_access(allowed_commands, denied_commands,
                                            command, window, origin)])
  /\ UNCHANGED <<tables, stores, command_cache, global_scope_cache,
                 callers, calls, deserializations, acl, diagnosis, earlier>>

\* A later resolve_access call of the same dispatch layer. Before ret is
\* overwritten the call it held may be kept in earlier, next to the calls
\* that follow it.
ResolveAccessAgain(command, window, origin) ==
  /\ IsSome(ret)
  /\ ret' = Some([command |-> command, window |-> window, origin |-> origin,
                  result |-> resolve_access(allowed_commands, denied_commands,
                                            command, window, origin)])
  /\ \E keep \in BOOLEAN : earlier' = IF keep THEN earlier ELSE ret
  /\ calls' = calls + 1
  /\ UNCHANGED <<tables, stores, command_cache, global_scope_cache,
                 callers, deserializations, acl, diagnosis>>

\* resolve_access_message, called by the IPC dispatch layer of a debug build.
ResolveAccessMessage(plugin, command_name, window, origin) ==
  /\ diagnosis = None
  /\ diagnosis' = Some([plugin |-> plugin, command_name |-> command_name,
                        window |-> window, origin |-> origin,
                        result |-> resolve_access_message(
                                     acl, allowed_commands, denied_commands,
                                     plugin, command_name, window, origin)])
  /\ UNCHANGED <<tables, stores, command_cache, global_scope_cache,
                 callers, calls, deserializations, acl, ret, earlier>>

-----------------------------------------------------------------------------
(* ScopeManager::get_command_scope_typed, in three steps per call: the     *)
(* cache lookup with the materialization, cache.set, cache.get.            *)

Panicked(caller, message) == [caller EXCEPT !.pc = "panicked", !.panic = message]

\* A call of get_command_scope_typed or get_global_scope_typed that has just begun.
Started(op, key, plugin, T) ==
  [IdleCaller EXCEPT !.op = op, !.key = key, !.plugin = plugin, !.type = T]

\* Some(cached) => Ok(cached)
ReturnCached(started, cached) ==
  [started EXCEPT !.pc = "done", !.hit = TRUE, !.result = Some(Ok(Unwrap(cached)))]

\* The two deserialization loops: on success the call goes on to cache.set
\* with the value, on failure it returns the error.
AfterMaterialize(started, m) ==
  IF m.result.tag = "Ok"
  THEN [started EXCEPT !.pc = "set", !.ndeser = m.n, !.value = m.result.value]
  ELSE [started EXCEPT !.pc = "done", !.ndeser = m.n, !.result = Some(m.result)]

\* Lines 421-442: the None arm of get_command_scope_typed.
CommandCacheMiss(started, scope_map, key, T) ==
  IF key \notin DOMAIN scope_map
  THEN Panicked(started, "missing command scope for key")
  ELSE AfterMaterialize(started, Materialize(T, scope_map[key]))

\* get_command_scope_typed that answers an unknown key with an empty scope.
get_command_scope_typed_unknown_empty(cache_map, scope_map, key, T) ==
  LET started == Started("command", key, "", T)
  IN IF key \notin DOMAIN cache_map
     THEN [started EXCEPT !.pc = "done", !.result = Some(Ok(EmptyScopeValue))]
     ELSE LET cached == TryGet(cache_map[key], T)
          IN IF IsSome(cached) THEN ReturnCached(started, cached)
             ELSE CommandCacheMiss(started, scope_map, key, T)

\* get_command_scope_typed that never reads the cache.
get_command_scope_typed_no_cache(cache_map, scope_map, key, T) ==
  LET started == Started("command", key, "", T)
  IN IF key \notin DOMAIN cache_map
     THEN Panicked(started, "unwrap on None")
     ELSE CommandCacheMiss(started, scope_map, key, T)

\* get_command_scope_typed over one TypeMap shared by all scope keys: a value
\* of type T cached for any key answers the call.
get_command_scope_typed_shared_cache(cache_map, scope_map, key, T) ==
  LET started == Started("command", key, "", T)
      filled == {k \in DOMAIN cache_map : IsSome(TryGet(cache_map[k], T))}
  IN IF key \notin DOMAIN cache_map
     THEN Panicked(started, "unwrap on None")
     ELSE IF filled # {}
          THEN ReturnCached(started, TryGet(cache_map[CHOOSE k \in filled : TRUE], T))
          ELSE CommandCacheMiss(started, scope_map, key, T)

\* Lines 417-442: up to "let value = ScopeValue { allow, deny }".
get_command_scope_typed(cache_map, scope_map, key, T) ==
  LET started == Started("command", key, "", T)
  IN IF key \notin DOMAIN cache_map
     THEN Panicked(started, "unwrap on None")
     ELSE LET cached == TryGet(cache_map[key], T)
          IN IF IsSome(cached) THEN ReturnCached(started, cached)
             ELSE CommandCacheMiss(started, scope_map, key, T)

\* Line 444: let _ = cache.set(value)
CommandCacheAfterSet(cache_map, key, T, value) ==
  [cache_map EXCEPT ![key] = TypeMapSet(@, T, value)]

\* Line 445: Ok(cache.get()); TypeMap::get panics when no value of the type is stored.
CacheGetReturn(caller, typemap) ==
  IF IsSome(TryGet(typemap, caller.type))
  THEN [caller EXCEPT !.pc = "done", !.value = None,
                      !.result = Some(Ok(Unwrap(TryGet(typemap, caller.type))))]
  ELSE Panicked(caller, "get on an unset TypeMap")

CanStart(c) == callers[c].pc \in {"idle", "done"}

CommandScopeStart(c, key, T) ==
  /\ CanStart(c)
  /\ LET next == get_command_scope_typed(command_cache, command_scope, key, T)
     IN /\ callers' = [callers EXCEPT ![c] = next]
        /\ deserializations' =
             [deserializations EXCEPT !.command[key][T] = @ + next.ndeser]
  /\ calls' = calls + 1
  /\ UNCHANGED <<tables, stores, command_cache, global_scope_cache, acl, observed>>

\* cache.set that takes the raw scope out of the store once its typed value
\* is cached.
CommandCacheSet_takes_raw(c) ==
  /\ callers[c].pc = "set" /\ callers[c].op = "command"
  /\ command_cache' = CommandCacheAfterSet(command_cache, callers[c].key,
                                           callers[c].type, Unwrap(callers[c].value))
  /\ command_scope' = [k \in DOMAIN command_scope \ {callers[c].key} |-> command_scope[k]]
  /\ callers' = [callers EXCEPT ![c].pc = "get"]
  /\ UNCHANGED <<tables, global_scope, global_scope_cache, calls, deserializations,
                 acl, observed>>

CommandCacheSet(c) ==
  /\ callers[c].pc = "set" /\ callers[c].op = "command"
  /\ command_cache' = CommandCacheAfterSet(command_cache, callers[c].key,
                                           callers[c].type, Unwrap(callers[c].value))
  /\ callers' = [callers EXCEPT ![c].pc = "get"]
  /\ UNCHANGED <<tables, stores, global_scope_cache, calls, deserializations, acl, observed>>

CommandCacheGet(c) ==
  /\ callers[c].pc = "get" /\ callers[c].op = "command"
  /\ callers' = [callers EXCEPT ![c] = CacheGetReturn(@, command_cache[callers[c].key])]
  /\ UNCHANGED <<tables, stores, command_cache, global_scope_cache,
                 calls, deserializations, acl, observed>>

-----------------------------------------------------------------------------
(* ScopeManager::get_global_scope_typed *)

\* Lines 387-405: the None arm of get_global_scope_typed; a plugin without
\* a global scope keeps the two lists empty.
GlobalCacheMiss(started, scope_map, plugin, T) ==
  AfterMaterialize(started,
    IF plugin \in DOMAIN scope_map
    THEN Materialize(T, scope_map[plugin])
    ELSE [result |-> Ok(EmptyScopeValue), n |-> 0])

\* get_global_scope_typed that unwraps the plugin's global scope.
get_global_scope_typed_unknown_panics(cache, scope_map, plugin, T) ==
  LET started == Started("global", 0, plugin, T)
      cached == TryGet(cache, T)
  IN IF IsSome(cached) THEN ReturnCached(started, cached)
     ELSE IF plugin \notin DOMAIN scope_map
          THEN Panicked(started, "unwrap on None")
          ELSE GlobalCacheMiss(started, scope_map, plugin, T)

\* Lines 384-405: up to "let scope = ScopeValue { allow, deny }".
get_global_scope_typed(cache, scope_map, plugin, T) ==
  LET started == Started("global", 0, plugin, T)
      cached == TryGet(cache, T)
  IN IF IsSome(cached) THEN ReturnCached(started, cached)
     ELSE GlobalCacheMiss(started, scope_map, plugin, T)

\* Line 406: let _ = self.global_scope_cache.set(scope)
GlobalCacheAfterSet(cache, plugin, T, value) == TypeMapSet(cache, T, value)

GlobalScopeStart(c, plugin, T) ==
  /\ CanStart(c)
  /\ LET next == get_global_scope_typed(global_scope_cache, global_scope, plugin, T)
     IN /\ callers' = [callers EXCEPT ![c] = next]
        /\ deserializations' =
             [deserializations EXCEPT !.global[plugin][T] = @ + next.ndeser]
  /\ calls' = calls + 1
  /\ UNCHANGED <<tables, stores, command_cache, global_scope_cache, acl, observed>>

GlobalCacheSet(c) ==
  /\ callers[c].pc = "set" /\ callers[c].op = "global"
  /\ global_scope_cache' = GlobalCacheAfterSet(global_scope_cache, callers[c].plugin,
                                               callers[c].type, Unwrap(callers[c].value))
  /\ callers' = [callers EXCEPT ![c].pc = "get"]
  /\ UNCHANGED <<tables, stores, command_cache, calls, deserializations, acl, observed>>

GlobalCacheGet(c) ==
  /\ callers[c].pc = "get" /\ callers[c].op = "global"
  /\ callers' = [callers EXCEPT ![c] = CacheGetReturn(@, global_scope_cache)]
  /\ UNCHANGED <<tables, stores, command_cache, global_scope_cache,
                 calls, deserializations, acl, observed>>

-----------------------------------------------------------------------------
(* CommandArg::from_command for CommandScope and GlobalScope: the command  *)
(* handler's way into the ScopeManager.                                    *)

\* InvokeError::from_anyhow(anyhow!(text)): the error carries the text.
InvokeError_from_anyhow(text) == [tag |-> "InvokeError", value |-> Some(text)]

\* InvokeError::from_error(err) and the From conversion of '?': the error
\* carries the display of err, which names the crate::Error variant.
InvokeError_from_error(err) == [tag |-> "InvokeError", value |-> Some(err.tag)]

\* A call that returned from get_*_scope_typed with an error leaves
\* from_command with the converted error; any other call is left as it is.
MapErr(next) ==
  IF next.pc = "done" /\ Unwrap(next.result).tag # "Ok"
  THEN [next EXCEPT !.result = Some(InvokeError_from_error(Unwrap(next.result)))]
  ELSE next

\* CommandItem::acl as from_command reads it: the resolved record of the
\* command, if it has one, with its scope key, if it declares one.
CommandAcls ==
  {None} \cup {Some(ResolvedCommand(<<>>, scope)) :
                 scope \in {None} \cup {Some(key) : key \in ScopeKeys}}

\* command.acl.as_ref().and_then(|resolved| resolved.scope)
ScopeIdOf(command_acl) ==
  IF IsSome(command_acl) THEN Unwrap(command_acl).scope ELSE None

\* CommandScope::from_command that looks up the default scope key when the
\* command declares none.
CommandScope_from_command_default_key(cache_map, scope_map, command_acl, T) ==
  LET scope_id == ScopeIdOf(command_acl)
  IN MapErr(get_command_scope_typed(cache_map, scope_map,
              IF IsSome(scope_id) THEN Unwrap(scope_id) ELSE 0, T))

\* Lines 292-308: CommandScope::from_command.
CommandScope_from_command(cache_map, scope_map, command_acl, T) ==
  LET scope_id == ScopeIdOf(command_acl)
  IN IF IsSome(scope_id)
     THEN MapErr(get_command_scope_typed(cache_map, scope_map, Unwrap(scope_id), T))
     ELSE [Started("command", 0, "", T) EXCEPT
             !.pc = "done", !.result = Some(Ok(EmptyScopeValue))]

CommandScopeFromCommand(c, command_acl, T) ==
  /\ CanStart(c)
  /\ LET next == CommandScope_from_command(command_cache, command_scope, command_acl, T)
     IN /\ callers' = [callers EXCEPT
                         ![c] = [next EXCEPT !.arg = "CommandScope", !.item = command_acl]]
        /\ deserializations' =
             IF next.key \in ScopeKeys
             THEN [deserializations EXCEPT !.command[next.key][T] = @ + next.ndeser]
             ELSE deserializations
  /\ calls' = calls + 1
  /\ UNCHANGED <<tables, stores, command_cache, global_scope_cache, acl, observed>>

\* CommandItem::plugin: the plugin that owns the command, None for a command
\* of the application.
CommandPlugins == {None} \cup {Some(plugin) : plugin \in Plugins}

\* The error of lines 333-335.
GlobalScopeNotAvailable ==
  InvokeError_from_anyhow("global scope not available for app commands")

\* GlobalScope::from_command that looks up the scope of the plugin "" for a
\* command of the application.
GlobalScope_from_command_empty_plugin(cache, scope_map, command_plugin, T) ==
  MapErr(get_global_scope_typed(cache, scope_map,
           IF IsSome(command_plugin) THEN Unwrap(command_plugin) ELSE "", T))

\* Lines 330-348: GlobalScope::from_command.
GlobalScope_from_command(cache, scope_map, command_plugin, T) ==
  IF IsSome(command_plugin)
  THEN MapErr(get_global_scope_typed(cache, scope_map, Unwrap(command_plugin), T))
  ELSE [Started("global", 0, "", T) EXCEPT
          !.pc = "done", !.result = Some(GlobalScopeNotAvailable)]

GlobalScopeFromCommand(c, command_plugin, T) ==
  /\ CanStart(c)
  /\ LET next == GlobalScope_from_command(global_scope_cache, global_scope,
                                          command_plugin, T)
     IN /\ callers' = [callers EXCEPT
                         ![c] = [next EXCEPT !.arg = "GlobalScope", !.item = command_plugin]]
        /\ deserializations' =
             IF next.plugin \in Plugins
             THEN [deserializations EXCEPT !.global[next.plugin][T] = @ + next.ndeser]
             ELSE deserializations
  /\ calls' = calls + 1
  /\ UNCHANGED <<tables, stores, command_cache, global_scope_cache, acl, observed>>

-----------------------------------------------------------------------------
(* Specifications *)

MaxAllowed == 2
MaxDenied == 1
MaxCalls == 3

ResolvedCommands == {ResolvedCommand(w, None) : w \in WindowLists}

\* The entries of the denied table: resolve_access reads only their keys.
DeniedCommands == {ResolvedCommand(w, None) : w \in {<<>>, << <<"a">> >>}}

CommandTables(max, entries) ==
  UNION {[D -> entries] : D \in {S \in SUBSET CommandKeys : Cardinality(S) <= max}}

ScopeMapsOver(keys, scopes) == UNION {[D -> scopes] : D \in SUBSET keys}
ScopeMaps(keys) == ScopeMapsOver(keys, ResolvedScopes)

\* The scopes that hold at most one raw value.
SingleValueScopes == {s \in ResolvedScopes : Len(s.allow) + Len(s.deny) <= 1}

\* The authority of an application that declares commands and no scopes.
InitAccess ==
  \E allowed \in CommandTables(MaxAllowed, ResolvedCommands),
     denied \in CommandTables(MaxDenied, DeniedCommands) :
    New([allowed_commands |-> allowed, denied_commands |-> denied,
         command_scope |-> EmptyMap, global_scope |-> EmptyMap])

NextAccess ==
  \E command \in NameSet, window \in Labels, origin \in Origins :
    ResolveAccess(command, window, origin)

SpecAccess == InitAccess /\ [][NextAccess]_vars

\* The authority of an application that declares command scopes.
InitCommand ==
  \E scopes \in ScopeMaps(ScopeKeys) :
    New([allowed_commands |-> EmptyMap, denied_commands |-> EmptyMap,
         command_scope |-> scopes, global_scope |-> EmptyMap])

CommandCalls(cs) ==
  \/ \E c \in cs, key \in ScopeKeys, T \in Types :
       calls < MaxCalls /\ CommandScopeStart(c, key, T)
  \/ \E c \in cs : CommandCacheSet(c)
  \/ \E c \in cs : CommandCacheGet(c)

NextCommand == CommandCalls(Callers)

SpecCommand == InitCommand /\ [][NextCommand]_vars

\* The authority of an application whose plugins declare global scopes.
InitGlobal ==
  \E scopes \in ScopeMaps(Plugins) :
    New([allowed_commands |-> EmptyMap, denied_commands |-> EmptyMap,
         command_scope |-> EmptyMap, global_scope |-> scopes])

GlobalCalls(cs) ==
  \/ \E c \in cs, plugin \in Plugins, T \in Types :
       calls < MaxCalls /\ GlobalScopeStart(c, plugin, T)
  \/ \E c \in cs : GlobalCacheSet(c)
  \/ \E c \in cs : GlobalCacheGet(c)

NextGlobal == GlobalCalls(Callers)

SpecGlobal == InitGlobal /\ [][NextGlobal]_vars

\* The same authorities, called from one thread only.
SpecCommandSeq == InitCommand /\ [][CommandCalls({1})]_vars

SpecGlobalSeq == InitGlobal /\ [][GlobalCalls({1})]_vars

\* The same authorities, called by command handlers that take a CommandScope
\* or a GlobalScope argument.
CommandArgCalls(cs) ==
  \/ \E c \in cs, command_acl \in CommandAcls, T \in Types :
       calls < MaxCalls /\ CommandScopeFromCommand(c, command_acl, T)
  \/ \E c \in cs : CommandCacheSet(c)
  \/ \E c \in cs : CommandCacheGet(c)

NextCommandArg == CommandArgCalls(Callers)

SpecCommandArg == InitCommand /\ [][NextCommandArg]_vars

GlobalArgCalls(cs) ==
  \/ \E c \in cs, command_plugin \in CommandPlugins, T \in Types :
       calls < MaxCalls /\ GlobalScopeFromCommand(c, command_plugin, T)
  \/ \E c \in cs : GlobalCacheSet(c)
  \/ \E c \in cs : GlobalCacheGet(c)

NextGlobalArg == GlobalArgCalls(Callers)

SpecGlobalArg == InitGlobal /\ [][NextGlobalArg]_vars

\* The permission identifiers a permission set lists.
ReferenceIds == {"default", "all", "extra", "allow-read"}
OneReference == {<<>>} \cup {<<x>> : x \in ReferenceIds}
TwoReferences == OneReference \cup {<<x, y>> : x \in ReferenceIds, y \in ReferenceIds}

\* The permissions of a manifest.
PermissionMaps ==
  {EmptyMap,
   [id \in {"allow-read"} |-> Permission(id, <<"read">>)],
   [id \in {"allow-read", "base"} |-> Permission(id, <<"read">>)]}

\* The permission sets of a manifest: "all" and "extra", each present or not.
PermissionSetMaps ==
  {[id \in D |-> PermissionSet(id, IF id = "all" THEN all ELSE extra)] :
     D \in SUBSET {"all", "extra"}, all \in TwoReferences, extra \in OneReference}

Manifests ==
  {Manifest(default, sets, permissions) :
     default \in {None} \cup {Some(PermissionSet("default", l)) : l \in OneReference},
     sets \in PermissionSetMaps,
     permissions \in PermissionMaps}

\* The authority of a debug build whose plugin fs comes with a manifest, with
\* no allowed entry or with one for the Local context.
InitManifest ==
  \E manifest \in Manifests,
     allowed \in {EmptyMap,
                  [k \in {CommandKey("plugin:fs|read", Local)} |->
                     ResolvedCommand(<< <<"a">> >>, None)]} :
    New([allowed_commands |-> allowed, denied_commands |-> EmptyMap,
         command_scope |-> EmptyMap, global_scope |-> EmptyMap,
         acl |-> [plugin \in {"fs"} |-> manifest]])

NextManifest ==
  \E plugin \in Plugins, command_name \in CommandArgs,
     window \in Labels, origin \in Origins :
    ResolveAccessMessage(plugin, command_name, window, origin)

SpecManifest == InitManifest /\ [][NextManifest]_vars

\* The keys of the tables of a debug build: the command of the plugin fs on
\* every context, and the commands of the Local context.
MessageKeys ==
  {k \in CommandKeys : k.name = "plugin:fs|read" \/ k.context = Local}

CommandTablesOver(keys, max, entries) ==
  UNION {[D -> entries] : D \in {S \in SUBSET keys : Cardinality(S) <= max}}

\* ResolvedCommand::referenced_by: the capability and the permission that
\* put the entry into its table.
ReferencedBy(key, permission) ==
  IF key.context.tag = "Local"
  THEN <<[capability |-> "main", permission |-> permission]>>
  ELSE <<[capability |-> "remote", permission |-> permission],
         [capability |-> "main", permission |-> permission]>>

WithReferences(table, permission) ==
  [k \in DOMAIN table |->
     [table[k] EXCEPT !.referenced_by = ReferencedBy(k, permission)]]

\* The manifest of a plugin whose default permission allows "read".
ReadManifest ==
  Manifest(Some(PermissionSet("default", <<"allow-read">>)), EmptyMap,
           [id \in {"allow-read"} |-> Permission(id, <<"read">>)])

\* The authority of a debug build in which one of the two plugins comes with
\* a manifest.
InitMessage ==
  \E allowed \in CommandTablesOver(MessageKeys, MaxAllowed, ResolvedCommands),
     denied \in CommandTablesOver(MessageKeys, MaxDenied, DeniedCommands),
     with_manifest \in Plugins :
    New([allowed_commands |-> WithReferences(allowed, "allow-read"),
         denied_commands |-> WithReferences(denied, "deny-read"),
         command_scope |-> EmptyMap, global_scope |-> EmptyMap,
         acl |-> [plugin \in {with_manifest} |-> ReadManifest]])

NextMessage ==
  \E plugin \in Plugins, window \in Labels, origin \in Origins :
    ResolveAccessMessage(plugin, "read", window, origin)

SpecMessage == InitMessage /\ [][NextMessage]_vars

\* The authority of a debug build with commands, scopes and a manifest: the
\* plugin fs has a command with a command scope and a global scope; raw values
\* of both kinds make requests for either type succeed or fail.
AuthorityKeys ==
  {CommandKey("plugin:fs|read", Local), CommandKey("plugin:fs|read", Remote(<<"a", Star>>))}

AuthorityCommand(key) ==
  IF key.context = Local
  THEN ResolvedCommand(<< <<"a">> >>, Some(1))
  ELSE ResolvedCommand(<< <<"b">>, <<"a", Star>> >>, None)

InitAuthority ==
  \E allowed \in {[key \in AuthorityKeys |-> AuthorityCommand(key)]},
     denied \in {EmptyMap,
                 [k \in {CommandKey("plugin:fs|read", Remote(<<Star>>))} |->
                    ResolvedCommand(<<>>, None)]},
     raw \in Values :
    New([allowed_commands |-> WithReferences(allowed, "allow-read"),
         denied_commands |-> WithReferences(denied, "deny-read"),
         command_scope |-> [k \in {1} |-> ResolvedScope(<<raw>>, <<>>)],
         global_scope |-> [p \in {"fs"} |-> ResolvedScope(<<>>, <<raw>>)],
         acl |-> [plugin \in {"fs"} |-> ReadManifest]])

\* The windows and origins the dispatch layer asks about.
AuthorityWindows == {<<"a">>, <<"b">>}
AuthorityOrigins == {Local, Remote(<<"a">>)}

NextAuthority ==
  \/ \E window \in AuthorityWindows, origin \in AuthorityOrigins :
       ResolveAccess("plugin:fs|read", window, origin)
  \/ \E window \in AuthorityWindows, origin \in AuthorityOrigins :
       calls < MaxCalls /\ ResolveAccessAgain("plugin:fs|read", window, origin)
  \/ \E window \in AuthorityWindows, origin \in AuthorityOrigins :
       ResolveAccessMessage("fs", "read", window, origin)
  \/ CommandArgCalls({1})
  \/ GlobalArgCalls({1})

SpecAuthority == InitAuthority /\ [][NextAuthority]_vars

\* Raw lists of up to two values, among them two different strings.
ListValues == Values \cup {[kind |-> "String", data |-> "b"]}
PairLists ==
  {<<>>} \cup {<<v>> : v \in ListValues} \cup {<<v, w>> : v \in ListValues, w \in ListValues}

\* The authority of an application whose scope key 1 and whose plugin fs
\* carry the same raw scope.
InitMaterialize ==
  \E allow \in PairLists, deny \in PairLists :
    New([allowed_commands |-> EmptyMap, denied_commands |-> EmptyMap,
         command_scope |-> [k \in {1} |-> ResolvedScope(allow, deny)],
         global_scope |-> [p \in {"fs"} |-> ResolvedScope(allow, deny)]])

NextMaterialize == CommandCalls({1}) \/ GlobalCalls({1})

SpecMaterialize == InitMaterialize /\ [][NextMaterialize]_vars

\* referenced_by of a denied entry: each entry was denied by a capability
\* and a permission of its own.
DenyReferences(key) ==
  IF key.context.tag = "Local"
  THEN <<[capability |-> "main", permission |-> "fs:deny-local"]>>
  ELSE IF key.context.domain = <<Star>>
  THEN <<[capability |-> "remote-any", permission |-> "fs:deny-remote"]>>
  ELSE <<[capability |-> "remote-a", permission |-> "fs:deny-read"],
         [capability |-> "main", permission |-> "fs:deny-read"]>>

\* The keys of the plugin's command, one per execution context.
ReadKeys == {k \in CommandKeys : k.name = "plugin:fs|read"}

\* The authority of a debug build that denies the plugin's command on any
\* number of execution contexts.
InitDenied ==
  \E contexts \in SUBSET ReadKeys, allowed \in SUBSET ReadKeys :
    /\ Cardinality(allowed) <= 1
    /\ New([allowed_commands |->
              WithReferences([k \in allowed |-> ResolvedCommand(<< <<"a">> >>, None)],
                             "allow-read"),
            denied_commands |->
              [k \in contexts |->
                 [ResolvedCommand(<<>>, None) EXCEPT !.referenced_by = DenyReferences(k)]],
            command_scope |-> EmptyMap, global_scope |-> EmptyMap,
            acl |-> [plugin \in {"fs"} |-> ReadManifest]])

NextDenied ==
  \E window \in Labels, origin \in Origins :
    ResolveAccessMessage("fs", "read", window, origin)

SpecDenied == InitDenied /\ [][NextDenied]_vars

\* The authority of an application that declares command scopes or global
\* scopes, called through both kinds of request.
Init ==
  \E commands \in ScopeMapsOver(ScopeKeys, SingleValueScopes),
     globals \in ScopeMapsOver(Plugins, SingleValueScopes) :
    /\ commands = EmptyMap \/ globals = EmptyMap
    /\ New([allowed_commands |-> EmptyMap, denied_commands |-> EmptyMap,
            command_scope |-> commands, global_scope |-> globals])

Next == CommandCalls(Callers) \/ GlobalCalls(Callers)

Spec == Init /\ [][Next]_vars

-----------------------------------------------------------------------------
(* Properties of resolve_access (SpecAccess) *)

\* The keys of a table whose name is the command and whose context matches the origin.
Matching(table, command, origin) ==
  {k \in DOMAIN table : k.name = command /\ OriginMatches(origin, k.context)}

\* C1: deny precedence. Whenever the denied table holds an entry with the
\* command's name whose execution context matches the origin, resolve_access
\* returned None, whatever the allowed table holds.
C1_DenyPrecedence ==
  IsSome(ret) =>
    LET r == Unwrap(ret)
    IN Matching(denied_commands, r.command, r.origin) # {} => r.result = None

\* C1 happens: the same CommandKey is denied and allowed, the allowed entry's
\* windows match the calling window, and the call returned None.
C1_Witness ==
  /\ IsSome(ret)
  /\ LET r == Unwrap(ret)
     IN \E k \in Matching(denied_commands, r.command, r.origin) :
          /\ k \in DOMAIN allowed_commands
          /\ AnyWindowMatches(allowed_commands[k], r.window)
          /\ r.result = None

\* C2: with no denied entry matching (command, origin), resolve_access returns
\* Some(e) exactly when e is the first allowed entry, in CommandKey order, with
\* the command's name and a context matching the origin, and a window pattern
\* of e matches the window label; otherwise (also when no allowed entry has
\* the name and a matching context) it returns None.
C2_FirstMatchingEntry ==
  IsSome(ret) =>
    LET r == Unwrap(ret)
        M == Matching(allowed_commands, r.command, r.origin)
        first == {k \in M : \A j \in M \ {k} : CommandKeyLess(k, j)}
        granted == {k \in first : AnyWindowMatches(allowed_commands[k], r.window)}
    IN Matching(denied_commands, r.command, r.origin) = {} =>
         /\ Cardinality(first) <= 1
         /\ \A k \in granted :
              r.result = Some([key |-> k, resolved |-> allowed_commands[k]])
         /\ granted = {} => r.result = None
         /\ M = {} => r.result = None

\* C2 happens: two allowed entries match the command and the origin, and the
\* call returned the first of them.
C2_Witness ==
  /\ IsSome(ret)
  /\ LET r == Unwrap(ret)
         M == Matching(allowed_commands, r.command, r.origin)
     IN /\ Matching(denied_commands, r.command, r.origin) = {}
        /\ Cardinality(M) = 2
        /\ IsSome(r.result)
        /\ \A j \in M \ {Unwrap(r.result).key} : CommandKeyLess(Unwrap(r.result).key, j)

-----------------------------------------------------------------------------
(* Properties of the typed scope cache *)

IsCommandCall(c) == callers[c].op = "command"
IsGlobalCall(c) == callers[c].op = "global"

\* The raw lists a call is about: the ResolvedScope of its scope key or of its
\* plugin, and two empty lists for a plugin without a global scope.
OwnScope(c) ==
  IF IsCommandCall(c) THEN command_scope[callers[c].key]
  ELSE IF callers[c].plugin \in DOMAIN global_scope THEN global_scope[callers[c].plugin]
  ELSE ResolvedScope(<<>>, <<>>)

HasOwnScope(c) ==
  \/ IsCommandCall(c) /\ callers[c].key \in DOMAIN command_scope
  \/ IsGlobalCall(c)

\* What the call returns when nothing is cached: the typed projection of its
\* own raw lists, or the deserialization error.
Uncached(c) == Materialize(callers[c].type, OwnScope(c)).result

\* The cache slot a call reads and writes.
Slot(c) ==
  IF IsCommandCall(c) THEN command_cache[callers[c].key][callers[c].type]
  ELSE global_scope_cache[callers[c].type]

\* The deserialize calls made so far for the call's (key or plugin, type).
Deserialized(c) ==
  IF IsCommandCall(c) THEN deserializations.command[callers[c].key][callers[c].type]
  ELSE deserializations.global[callers[c].plugin][callers[c].type]

Returned(c) == callers[c].pc = "done"
ReturnedOk(c) == Returned(c) /\ Unwrap(callers[c].result).tag = "Ok"

\* C3: the typed global-scope cache is keyed by (plugin, type): a successful
\* global-scope request for plugin P and type T returns the typed projection
\* of P's own raw allow and deny lists, whatever was requested before.
C3_GlobalCacheKeyedByPlugin ==
  \A c \in Callers :
    IsGlobalCall(c) /\ ReturnedOk(c) => Unwrap(callers[c].result) = Uncached(c)

\* C4 as claimed: a typed command-scope request with a scope key that is not
\* in the command scope store returns an empty ScopeValue, without a panic.
C4_UnknownKeyYieldsEmpty ==
  \A c \in Callers :
    IsCommandCall(c) /\ callers[c].key \notin DOMAIN command_scope =>
      /\ Returned(c)
      /\ callers[c].result = Some(Ok(EmptyScopeValue))

\* C4 as amended: a typed command-scope request with a scope key that is not
\* in the command scope store panics at the lookup of the key's cache: it
\* returns no value and no error, deserializes nothing and creates no cache.
C4_UnknownKeyPanics ==
  \A c \in Callers :
    IsCommandCall(c) /\ callers[c].key \notin DOMAIN command_scope =>
      /\ callers[c].pc = "panicked"
      /\ callers[c].panic = "unwrap on None"
      /\ callers[c].result = None
      /\ callers[c].ndeser = 0
      /\ callers[c].key \notin DOMAIN command_cache

\* C4 happens: a call with an unknown scope key was made while another scope
\* key is in the store.
C4_Witness ==
  \E c \in Callers :
    /\ IsCommandCall(c)
    /\ callers[c].key \notin DOMAIN command_scope
    /\ DOMAIN command_scope # {}
    /\ callers[c].pc = "panicked"

C6_FailureNotMemoized ==
  \A c \in Callers :
    /\ callers[c].pc # "idle" /\ HasOwnScope(c)
    /\ Uncached(c).tag = "CannotDeserializeScope"
    /\ Deserialized(c) > 0
    => /\ Returned(c)
       /\ ~callers[c].hit
       /\ callers[c].ndeser > 0
       /\ callers[c].result = Some(CannotDeserializeScope)
       /\ IsCommandCall(c) => Slot(c) = None

\* C7: cache hit. In a sequential run, once a typed command-scope request for
\* (K, T) has succeeded, the deserialize calls made for (K, T) are those of one
\* materialization however many requests follow, and each later request
\* returns the cached value with no deserialize call.
C7_CacheHit ==
  \A k \in DOMAIN command_cache, T \in Types :
    IsSome(command_cache[k][T]) =>
      /\ deserializations.command[k][T] =
           Len(command_scope[k].allow) + Len(command_scope[k].deny)
      /\ \A c \in Callers :
           IsCommandCall(c) /\ callers[c].key = k /\ callers[c].type = T /\ Returned(c) =>
             /\ callers[c].result = Some(Ok(Unwrap(command_cache[k][T])))
             /\ callers[c].hit => callers[c].ndeser = 0

\* C7 happens: a third request for a pair with raw values was answered from
\* the cache.
C7_Witness ==
  \E c \in Callers :
    /\ IsCommandCall(c) /\ Returned(c) /\ callers[c].hit
    /\ calls = 3
    /\ Deserialized(c) > 0
    /\ Deserialized(c) = Len(OwnScope(c).allow) + Len(OwnScope(c).deny)

\* The values a slot can hold when only whole materializations are stored.
WholeValues(c) ==
  IF IsCommandCall(c) THEN {Uncached(c)}
  ELSE {Materialize(callers[c].type, global_scope[p]).result : p \in DOMAIN global_scope}
         \cup {Ok(EmptyScopeValue)}

\* C8: first-access race. A caller that has made its set attempt always finds
\* a value in the slot and never panics in cache.get; what it returns is the
\* stored value, a whole materialization; and callers of the same
\* (key or plugin, type) return the same value.
C8_FirstAccessRace ==
  \A c \in Callers :
    /\ callers[c].pc = "get" => IsSome(Slot(c))
    /\ callers[c].panic # "get on an unset TypeMap"
    /\ callers[c].op # "none" /\ ReturnedOk(c) =>
         /\ callers[c].result = Some(Ok(Unwrap(Slot(c))))
         /\ Unwrap(callers[c].result) \in WholeValues(c)
         /\ \A d \in Callers :
              /\ callers[d].op = callers[c].op /\ callers[d].key = callers[c].key
              /\ callers[d].plugin = callers[c].plugin /\ callers[d].type = callers[c].type
              /\ ReturnedOk(d)
              => callers[d].result = callers[c].result

\* The two callers made the same request and both found the cache empty.
RacedOn(c, d, op) ==
  /\ c # d
  /\ callers[c].op = op /\ callers[d].op = op
  /\ callers[c].key = callers[d].key /\ callers[c].plugin = callers[d].plugin
  /\ callers[c].type = callers[d].type
  /\ ~callers[c].hit /\ ~callers[d].hit

\* C8 happens: two callers passed the cache-miss check for the same pair, both
\* made their set attempt and both returned the same value with raw values in it.
C8_Witness ==
  \E c, d \in Callers :
    /\ RacedOn(c, d, "command")
    /\ ReturnedOk(c) /\ ReturnedOk(d)
    /\ callers[c].result = callers[d].result
    /\ Unwrap(Unwrap(callers[c].result).value).allow # <<>>

\* C9: insert once. No step replaces or removes a value that a typed cache
\* holds, and no step removes or adds a per-key cache.
C9_InsertOnce ==
  [][/\ DOMAIN command_cache' = DOMAIN command_cache
     /\ \A k \in DOMAIN command_cache, T \in Types :
          IsSome(command_cache[k][T]) => command_cache'[k][T] = command_cache[k][T]
     /\ \A T \in Types :
          IsSome(global_scope_cache[T]) => global_scope_cache'[T] = global_scope_cache[T]
    ]_vars

\* C9 happens: a caller made its set attempt with a value other than the one
\* the slot already held, and the slot still holds the first value.
C9_Witness ==
  \E c \in Callers :
    /\ callers[c].pc = "get"
    /\ IsSome(Slot(c))
    /\ callers[c].value # Slot(c)

\* C10: caching is transparent for command scopes. Every typed command-scope
\* request for a scope key of the store returns what the uncached computation
\* returns for its (scope key, type): the same values or the same error.
C10_CachingTransparent ==
  \A c \in Callers :
    IsCommandCall(c) /\ callers[c].key \in DOMAIN command_scope =>
      /\ callers[c].pc # "panicked"
      /\ Returned(c) => Unwrap(callers[c].result) = Uncached(c)

\* C10 happens: a request was answered from the cache while the other scope
\* key holds a different value of the same type.
C10_Witness ==
  \E c \in Callers :
    /\ IsCommandCall(c) /\ Returned(c) /\ callers[c].hit
    /\ \E k \in DOMAIN command_cache :
         /\ k # callers[c].key
         /\ IsSome(command_cache[k][callers[c].type])
         /\ command_cache[k][callers[c].type] # Slot(c)

-----------------------------------------------------------------------------
(* More properties of resolve_access and of the origin matcher (SpecAccess) *)

\* The first key, in CommandKey order, of a set of keys.
FirstOf(keys) == {k \in keys : \A j \in keys \ {k} : CommandKeyLess(k, j)}

\* C11: no fall-through. When the first allowed entry (in CommandKey order)
\* with the command's name and an origin-matching context has no window
\* pattern matching the window label, resolve_access returns None, also when
\* a later entry with the same name matches the origin and the window.
C11_NoFallThrough ==
  IsSome(ret) =>
    LET r == Unwrap(ret)
        M == Matching(allowed_commands, r.command, r.origin)
    IN \A k \in FirstOf(M) :
         ~AnyWindowMatches(allowed_commands[k], r.window) => r.result = None

\* C11 happens: the first matching entry does not match the window, a later
\* entry matches origin and window, nothing is denied, and the call returned None.
C11_Witness ==
  /\ IsSome(ret)
  /\ LET r == Unwrap(ret)
         M == Matching(allowed_commands, r.command, r.origin)
     IN /\ Matching(denied_commands, r.command, r.origin) = {}
        /\ \E k \in FirstOf(M), j \in M :
             /\ CommandKeyLess(k, j)
             /\ ~AnyWindowMatches(allowed_commands[k], r.window)
             /\ AnyWindowMatches(allowed_commands[j], r.window)
        /\ r.result = None

\* C12: origin classes are disjoint. Origin::Local matches an execution
\* context iff the context is Local, a Remote origin never matches a Local
\* context, and resolve_access returns None when every allowed entry of the
\* command is of the other class than the origin.
C12_OriginClassesDisjoint ==
  /\ \A context \in ExecutionContexts :
       OriginMatches(Local, context) <=> context.tag = "Local"
  /\ \A d \in Labels : ~OriginMatches(Remote(d), Local)
  /\ IsSome(ret) =>
       LET r == Unwrap(ret)
           named == {k \in DOMAIN allowed_commands : k.name = r.command}
       IN (\A k \in named : k.context.tag # r.origin.tag) => r.result = None

\* C12 happens: a Remote origin called a command whose only allowed entry is
\* Local and matches the window, nothing is denied, and the call returned None.
C12_Witness ==
  /\ IsSome(ret)
  /\ LET r == Unwrap(ret)
         named == {k \in DOMAIN allowed_commands : k.name = r.command}
     IN /\ r.origin.tag = "Remote"
        /\ denied_commands = EmptyMap
        /\ named # {}
        /\ \A k \in named :
             k.context.tag = "Local" /\ AnyWindowMatches(allowed_commands[k], r.window)
        /\ r.result = None

\* The documented glob semantics, for patterns of literal characters and '*':
\* the string splits into one piece per pattern element, a literal element
\* taking exactly its own character and a '*' taking any piece, also an empty one.
GlobAccepts(pattern, str) ==
  \E cut \in [0..Len(pattern) -> 0..Len(str)] :
    /\ cut[0] = 0
    /\ cut[Len(pattern)] = Len(str)
    /\ \A i \in 1..Len(pattern) :
         IF pattern[i] = Star THEN cut[i] >= cut[i - 1]
         ELSE cut[i] = cut[i - 1] + 1 /\ str[cut[i]] = pattern[i]

\* Every string of at most two characters of an alphabet.
ShortStrings(alphabet) ==
  {<<>>} \cup {<<x>> : x \in alphabet} \cup {<<x, y>> : x \in alphabet, y \in alphabet}

\* C13: remote matching. Origin::Remote{D} matches ExecutionContext::Remote{P}
\* iff the glob pattern P accepts D; and with one allowed Remote entry and no
\* deny, resolve_access returns the entry for a domain the pattern accepts and
\* a matching window, and None for a domain it does not accept. The matcher is
\* compared with the glob semantics on the contexts of every table, and, for
\* each origin, on every pattern of up to two characters.
C13_RemoteMatching ==
  /\ IsSome(ret) /\ Unwrap(ret).origin.tag = "Remote" =>
       \A k \in (DOMAIN allowed_commands \cup DOMAIN denied_commands) :
         k.context.tag = "Remote" =>
           (OriginMatches(Unwrap(ret).origin, k.context) <=>
              GlobAccepts(k.context.domain, Unwrap(ret).origin.domain))
  /\ IsSome(ret) /\ Unwrap(ret).origin.tag = "Remote" /\ allowed_commands = EmptyMap =>
       \A p \in ShortStrings(Chars \cup {Star}) :
         OriginMatches(Unwrap(ret).origin, Remote(p)) <=>
           GlobAccepts(p, Unwrap(ret).origin.domain)
  /\ IsSome(ret) =>
       LET r == Unwrap(ret)
       IN \A k \in DOMAIN allowed_commands :
            /\ DOMAIN allowed_commands = {k} /\ denied_commands = EmptyMap
            /\ k.context.tag = "Remote" /\ r.origin.tag = "Remote" /\ k.name = r.command
            => IF GlobAccepts(k.context.domain, r.origin.domain)
               THEN AnyWindowMatches(allowed_commands[k], r.window) =>
                      r.result = Some([key |-> k, resolved |-> allowed_commands[k]])
               ELSE r.result = None

\* C13 happens: the only allowed entry is Remote with the pattern "a*", the
\* origin's domain is "ab", the window matches, and the call returned the entry.
C13_Witness ==
  /\ IsSome(ret)
  /\ LET r == Unwrap(ret)
     IN \E k \in DOMAIN allowed_commands :
          /\ DOMAIN allowed_commands = {k} /\ denied_commands = EmptyMap
          /\ k.context = Remote(<<"a", Star>>)
          /\ r.origin = Remote(<<"a", "b">>)
          /\ r.result = Some([key |-> k, resolved |-> allowed_commands[k]])

-----------------------------------------------------------------------------
(* Properties of from_command (SpecCommandArg, SpecGlobalArg) *)

\* The step is a from_command call that wrote caller c's record: a call
\* began, and either c's record changed, or no record changed and every
\* thread that could have repeated its call holds the same record as c.
FromCommandStep(c, arg) ==
  /\ calls' = calls + 1
  /\ callers'[c].arg = arg
  /\ \/ callers'[c] # callers[c]
     \/ /\ callers' = callers
        /\ \A d \in Callers : callers[d].pc = "done" => callers[d] = callers[c]

\* C14: a command-scope request for a command whose resolved record has no
\* scope key, or that has no resolved record, returns Ok with the empty
\* ScopeValue (allow = [], deny = []) and leaves every typed cache and the raw
\* scope stores unchanged; it deserializes nothing.
C14_NoScopeKeyYieldsEmpty ==
  [][\A c \in Callers :
       FromCommandStep(c, "CommandScope") /\ ~IsSome(ScopeIdOf(callers'[c].item))
       => /\ callers'[c].pc = "done"
          /\ callers'[c].result = Some(Ok(EmptyScopeValue))
          /\ UNCHANGED <<command_cache, global_scope_cache, stores, deserializations>>]_vars

\* C14 happens: one handler without a resolved record and one whose record
\* has no scope key both got the empty ScopeValue, while the store holds a
\* scope with a raw value and no cache slot was filled.
C14_Witness ==
  \E c \in Callers, d \in Callers :
    /\ callers[c].arg = "CommandScope" /\ callers[c].item = None
    /\ callers[d].arg = "CommandScope" /\ IsSome(callers[d].item)
    /\ ~IsSome(ScopeIdOf(callers[d].item))
    /\ callers[c].result = Some(Ok(EmptyScopeValue))
    /\ callers[d].result = Some(Ok(EmptyScopeValue))
    /\ \E k \in DOMAIN command_scope : command_scope[k].allow # <<>>
    /\ \A k \in DOMAIN command_cache : command_cache[k] = EmptyTypeMap
    /\ deserializations = NoDeserializations

\* C15: a global-scope request for a command with no owning plugin returns the
\* caller-misuse error ("global scope not available for app commands"), which
\* differs from the deserialization error, without any lookup: the global
\* scope cache is unchanged and nothing is deserialized.
C15_AppCommandHasNoGlobalScope ==
  [][\A c \in Callers :
       FromCommandStep(c, "GlobalScope") /\ callers'[c].item = None
       => /\ callers'[c].pc = "done"
          /\ callers'[c].result = Some(GlobalScopeNotAvailable)
          /\ GlobalScopeNotAvailable # InvokeError_from_error(CannotDeserializeScope)
          /\ UNCHANGED <<global_scope_cache, command_cache, stores, deserializations>>]_vars

\* C15 happens: one handler of an application command got the caller-misuse
\* error, another handler, of a plugin command, got the deserialization
\* error, and the global scope cache is still empty.
C15_Witness ==
  \E c \in Callers, d \in Callers :
    /\ callers[c].arg = "GlobalScope" /\ callers[c].item = None
    /\ callers[c].result = Some(GlobalScopeNotAvailable)
    /\ callers[d].arg = "GlobalScope" /\ IsSome(callers[d].item)
    /\ callers[d].result = Some(InvokeError_from_error(CannotDeserializeScope))
    /\ global_scope_cache = EmptyTypeMap

-----------------------------------------------------------------------------
(* Properties of resolve_access_message (SpecManifest) *)

\* C16: permission-set expansion in the diagnostics path terminates for every
\* manifest, also when a permission set lists itself, two sets list each
\* other, or the default permission lists "default": every call of
\* resolve_access_message returns.
C16_ExpansionTerminates ==
  IsSome(diagnosis) => Unwrap(diagnosis).result.outcome = "returned"

(* Properties of resolve_access_message (SpecMessage) *)

\* What the last resolve_access_message call was about, in the tables.
AskedCommand == FormatCommand(Unwrap(diagnosis).plugin, Unwrap(diagnosis).command_name)
AllowedOnOrigin == Matching(allowed_commands, AskedCommand, Unwrap(diagnosis).origin)
DeniedOnOrigin == Matching(denied_commands, AskedCommand, Unwrap(diagnosis).origin)

\* The message carries the generic detail.
CarriesGenericDetail(result) ==
  /\ result.outcome = "returned"
  /\ Unwrap(result.text).kind \in {"not allowed", "not allowed on origin"}
  /\ Unwrap(result.text).detail.kind = "Plugin did not define its manifest"

\* C19 as stated: when no allowed entry of the command matches the origin and
\* the plugin has no manifest in the ACL, resolve_access_message returns a
\* message carrying the detail "Plugin did not define its manifest".
C19_GenericDetailWithoutManifest ==
  IsSome(diagnosis) =>
    (AllowedOnOrigin = {} /\ Unwrap(diagnosis).plugin \notin DOMAIN acl
     => CarriesGenericDetail(Unwrap(diagnosis).result))

\* C19, amended: the diagnostics path never fails for missing manifest data.
\* When no denied and no allowed entry of the command matches the origin and
\* the plugin has no manifest in the ACL, resolve_access_message returns a
\* message carrying the detail "Plugin did not define its manifest"; when a
\* denied entry matches the origin it returns the denial message, which has
\* no permission detail; in both cases it returns.
C19_GenericDetailUnlessDenied ==
  IsSome(diagnosis) =>
    (AllowedOnOrigin = {} /\ Unwrap(diagnosis).plugin \notin DOMAIN acl
     => LET result == Unwrap(diagnosis).result
        IN /\ result.outcome = "returned"
           /\ IF DeniedOnOrigin = {}
              THEN CarriesGenericDetail(result)
              ELSE Unwrap(result.text).kind = "denied on origin")

\* C19 happens: the plugin has no manifest, allowed entries of the command
\* exist but none matches the origin, no denied entry matches, and the
\* message returned carries the generic detail.
C19_Witness ==
  /\ IsSome(diagnosis)
  /\ Unwrap(diagnosis).plugin \notin DOMAIN acl
  /\ \E k \in DOMAIN allowed_commands : k.name = AskedCommand
  /\ AllowedOnOrigin = {} /\ DeniedOnOrigin = {}
  /\ Unwrap(Unwrap(diagnosis).result.text).kind = "not allowed on origin"
  /\ CarriesGenericDetail(Unwrap(diagnosis).result)

-----------------------------------------------------------------------------
(* Properties of sequences of operations on one authority (SpecAuthority) *)

\* Two resolve_access calls with the same (command, window, origin).
SameArguments(a, b) ==
  a.command = b.command /\ a.window = b.window /\ a.origin = b.origin

C18_TablesAndStoresReadOnly ==
  [][UNCHANGED <<tables, stores, acl>>]_vars

\* C18 happens: resolve_access and resolve_access_message were called, a
\* request filled a typed cache and a later request failed.
C18_Witness ==
  /\ IsSome(ret) /\ IsSome(diagnosis)
  /\ \/ global_scope_cache # EmptyTypeMap
     \/ \E k \in DOMAIN command_cache : command_cache[k] # EmptyTypeMap
  /\ \E c \in Callers : callers[c].pc = "done" /\ Unwrap(callers[c].result).tag # "Ok"
  /\ command_scope # EmptyMap /\ global_scope # EmptyMap /\ allowed_commands # EmptyMap

-----------------------------------------------------------------------------
(* Properties of the materialization (SpecMaterialize) *)

\* The position of the first raw value of a list that does not deserialize
\* to T, and 0 when every value does.
FirstFailure(T, raws) ==
  LET failing == {i \in 1..Len(raws) : ~IsSome(Deserialize(T, raws[i]))}
  IN IF failing = {} THEN 0 ELSE CHOOSE i \in failing : \A j \in failing : i <= j

\* typed is raws deserialized element by element.
ElementWise(T, raws, typed) ==
  /\ Len(typed) = Len(raws)
  /\ \A i \in 1..Len(raws) : typed[i] = Unwrap(Deserialize(T, raws[i]))

\* The call found nothing cached and went through the two loops.
Materialized(c) ==
  /\ IsCommandCall(c) \/ IsGlobalCall(c)
  /\ HasOwnScope(c)
  /\ ~callers[c].hit
  /\ callers[c].pc \in {"set", "get"} \/ (Returned(c) /\ ~ReturnedOk(c))

\* C20: materialization order. A typed scope request deserializes the raw
\* allow values in list order, then the raw deny values in list order, and
\* stops at the first failure: it then returns the error after as many
\* deserialize calls as lead up to that value. On success the typed allow and
\* deny sequences have the length and order of the raw lists, element i being
\* the deserialization of raw element i.
C20_MaterializationOrder ==
  \A c \in Callers :
    Materialized(c) =>
      LET T == callers[c].type
          raw == OwnScope(c)
          in_allow == FirstFailure(T, raw.allow)
          in_deny == FirstFailure(T, raw.deny)
      IN IF in_allow > 0
         THEN /\ callers[c].result = Some(CannotDeserializeScope)
              /\ callers[c].ndeser = in_allow
         ELSE IF in_deny > 0
         THEN /\ callers[c].result = Some(CannotDeserializeScope)
              /\ callers[c].ndeser = Len(raw.allow) + in_deny
         ELSE /\ callers[c].pc \in {"set", "get"}
              /\ ElementWise(T, raw.allow, Unwrap(callers[c].value).allow)
              /\ ElementWise(T, raw.deny, Unwrap(callers[c].value).deny)
              /\ callers[c].ndeser = Len(raw.allow) + Len(raw.deny)

\* C20 happens: a request materialized an allow list of two different
\* strings and a deny list of one, and holds them typed in the raw order.
C20_Witness ==
  \E c \in Callers :
    /\ Materialized(c) /\ callers[c].pc = "set"
    /\ Len(OwnScope(c).allow) = 2 /\ OwnScope(c).allow[1] # OwnScope(c).allow[2]
    /\ Len(OwnScope(c).deny) = 1
    /\ Unwrap(callers[c].value).allow[1].data = OwnScope(c).allow[1].data
    /\ Unwrap(callers[c].value).allow[2].data = OwnScope(c).allow[2].data
    /\ callers[c].ndeser = 3

-----------------------------------------------------------------------------
(* Properties of the denial message (SpecDenied) *)

\* The provenance pairs a message lists.
ListedPairs(text) ==
  {<<text.referenced_by[i][2], text.referenced_by[i][4]>> :
     i \in 1..Len(text.referenced_by)}

\* The provenance pairs of one entry, and of a set of entries of a table.
PairsOfEntry(resolved) ==
  {<<resolved.referenced_by[i].capability, resolved.referenced_by[i].permission>> :
     i \in 1..Len(resolved.referenced_by)}

PairsOf(table, keys) == UNION {PairsOfEntry(table[k]) : k \in keys}

\* C21: in diagnostics case (a), when denied entries with the command name
\* match the origin, resolve_access_message lists the provenance (capability,
\* permission) pairs of the denying entries: of every denied entry that
\* matches the command name and the origin.
C21_ListsEveryDenyingEntry ==
  IsSome(diagnosis) /\ DeniedOnOrigin # {} =>
    LET result == Unwrap(diagnosis).result
    IN /\ result.outcome = "returned"
       /\ Unwrap(result.text).kind = "denied on origin"
       /\ ListedPairs(Unwrap(result.text)) = PairsOf(denied_commands, DeniedOnOrigin)

-----------------------------------------------------------------------------
(* Properties of the permission list (SpecManifest) *)

\* The permission sets a permission set refers to: the default permission
\* for "default", the set of that name for any other identifier.
ReferredSets(manifest, set) ==
  {Unwrap(manifest.default_permission) : i \in
     {j \in 1..Len(set.permissions) :
        set.permissions[j] = "default" /\ IsSome(manifest.default_permission)}}
  \cup
  {manifest.permission_sets[set.permissions[i]] : i \in
     {j \in 1..Len(set.permissions) :
        set.permissions[j] # "default" /\
        set.permissions[j] \in DOMAIN manifest.permission_sets}}

\* The expansion of a permission set: the sets reachable from it.
RECURSIVE Expansion(_, _)
Expansion(manifest, sets) ==
  LET more == sets \cup UNION {ReferredSets(manifest, set) : set \in sets}
  IN IF more = sets THEN sets ELSE Expansion(manifest, more)

\* A set allows a command through its expansion when a set of the expansion
\* lists an individual permission whose allow-list contains the command.
ExpansionAllows(manifest, set, command) ==
  \E member \in Expansion(manifest, {set}) :
    \E i \in 1..Len(member.permissions) :
      LET id == member.permissions[i]
      IN /\ id # "default"
         /\ id \notin DOMAIN manifest.permission_sets
         /\ id \in DOMAIN manifest.permissions
         /\ Contains(manifest.permissions[id].commands.allow, command)

\* The identifiers the message has to list.
ExpectedIdentifiers(manifest, command) ==
  {"default" : x \in {m \in {manifest} :
      IsSome(m.default_permission) /\
      ExpansionAllows(m, Unwrap(m.default_permission), command)}}
  \cup {manifest.permission_sets[id].identifier : id \in
          {j \in DOMAIN manifest.permission_sets :
             ExpansionAllows(manifest, manifest.permission_sets[j], command)}}
  \cup {manifest.permissions[id].identifier : id \in
          {j \in DOMAIN manifest.permissions :
             Contains(manifest.permissions[j].commands.allow, command)}}

\* The list is the given identifiers of the plugin, each once, ascending.
ListsAscending(list, plugin, identifiers) ==
  /\ {list[i] : i \in 1..Len(list)} = {<<plugin, id>> : id \in identifiers}
  /\ \A i \in 1..Len(list), j \in 1..Len(list) :
       i < j => IdRank(list[i][2]) < IdRank(list[j][2])

\* The last call is a case (c) or (d) for a plugin with a manifest.
SearchesManifest ==
  /\ IsSome(diagnosis)
  /\ DeniedOnOrigin = {} /\ AllowedOnOrigin = {}
  /\ Unwrap(diagnosis).plugin \in DOMAIN acl

\* C22: in diagnostics cases (c) and (d) with a manifest present, the listed
\* permission identifiers are exactly: "default" if the default permission
\* allows the command through its expansion, each permission set whose
\* expansion allows the command, and each individual permission whose
\* allow-list contains the command; and they are listed in ascending
\* alphabetical order.
C22_ListsAllowingPermissions ==
  SearchesManifest =>
    LET call == Unwrap(diagnosis)
    IN /\ call.result.outcome = "returned"
       /\ Unwrap(call.result.text).detail.kind = "Permissions associated with this command"
       /\ ListsAscending(Unwrap(call.result.text).detail.permissions, call.plugin,
                         ExpectedIdentifiers(acl[call.plugin], call.command_name))

-----------------------------------------------------------------------------
(* Denied entries and windows (SpecAccess) *)

\* C23: a denied entry denies on every window. resolve_access returns None
\* for a command whose denied entry matches the origin, also when none of
\* that entry's window patterns matches the calling window label and an
\* allowed entry matches origin and window.
C23_DenyIgnoresWindows ==
  IsSome(ret) =>
    LET r == Unwrap(ret)
    IN \A k \in Matching(denied_commands, r.command, r.origin) :
         ~AnyWindowMatches(denied_commands[k], r.window) => r.result = None

\* C23 happens: the denied entry names a window other than the caller's, an
\* allowed entry matches origin and window, and the call returned None.
C23_Witness ==
  /\ IsSome(ret)
  /\ LET r == Unwrap(ret)
     IN /\ \E k \in Matching(denied_commands, r.command, r.origin) :
             /\ denied_commands[k].windows # <<>>
             /\ ~AnyWindowMatches(denied_commands[k], r.window)
        /\ \E k \in Matching(allowed_commands, r.command, r.origin) :
             AnyWindowMatches(allowed_commands[k], r.window)
        /\ r.result = None

-----------------------------------------------------------------------------
(* Diagnostics and authorization (SpecMessage) *)

\* The message of the last resolve_access_message call is the string "allowed".
SaysAllowed ==
  /\ Unwrap(diagnosis).result.outcome = "returned"
  /\ Unwrap(Unwrap(diagnosis).result.text).kind = "allowed"

\* C24: diagnostics agree with authorization. For every plugin, command
\* name, window and origin, resolve_access_message returns the string
\* "allowed" iff resolve_access, called with the name
\* "plugin:<plugin>|<command>" and the same window and origin, returns Some.
C24_DiagnosticsAgree ==
  IsSome(diagnosis) =>
    (SaysAllowed <=>
       IsSome(resolve_access(allowed_commands, denied_commands, AskedCommand,
                             Unwrap(diagnosis).window, Unwrap(diagnosis).origin)))

\* C24 happens: with a denied entry of the command on another origin and two
\* allowed entries of the command, the message is "allowed".
C24_Witness ==
  /\ IsSome(diagnosis)
  /\ SaysAllowed
  /\ \E k \in DOMAIN denied_commands : k.name = AskedCommand
  /\ Cardinality({k \in DOMAIN allowed_commands : k.name = AskedCommand}) = 2

-----------------------------------------------------------------------------
(* Isolation of the cache entries (SpecCommand) *)

\* Every element of a typed ScopeValue is a value of type T.
AllOfType(T, value) ==
  /\ \A i \in 1..Len(value.allow) : value.allow[i].type = T
  /\ \A i \in 1..Len(value.deny) : value.deny[i].type = T

\* C25: cache entries are isolated. A typed command-scope request for
\* (scope key K, type T), whether it succeeds or fails, leaves the cache
\* entries of every other scope key and of every other type at K unchanged:
\* an entry changes only in the cache.set step of a request for its own key
\* and type. A request for type T never returns a value that was
\* materialized for a different type U.
C25_CacheEntriesIsolated ==
  [][/\ DOMAIN command_cache' = DOMAIN command_cache
     /\ \A k \in DOMAIN command_cache : \A T \in Types :
          command_cache'[k][T] # command_cache[k][T] =>
            \E c \in Callers :
              /\ callers[c].pc = "set" /\ callers'[c].pc = "get"
              /\ callers[c].key = k /\ callers[c].type = T
     /\ \A c \in Callers :
          callers'[c].pc = "done" /\ Unwrap(callers'[c].result).tag = "Ok" =>
            AllOfType(callers'[c].type, Unwrap(Unwrap(callers'[c].result).value))]_vars

\* C25 happens: the entry of one key and type holds a value, the entry of the
\* other type at that key is empty after a request for it failed, the entries
\* of the other key are empty, and a request returned the cached value.
C25_Witness ==
  \E k \in DOMAIN command_cache, j \in DOMAIN command_cache, T \in Types, U \in Types :
    /\ k # j /\ T # U
    /\ IsSome(command_cache[k][T])
    /\ Unwrap(command_cache[k][T]).allow # <<>>
    /\ command_cache[k][U] = None
    /\ command_cache[j] = EmptyTypeMap
    /\ \E c \in Callers :
         /\ Returned(c) /\ ~ReturnedOk(c)
         /\ callers[c].key = k /\ callers[c].type = U
    /\ \E c \in Callers :
         /\ ReturnedOk(c) /\ callers[c].key = k /\ callers[c].type = T

-----------------------------------------------------------------------------
(* One cache per scope key (SpecCommand) *)

\* C26: RuntimeAuthority::new creates exactly one empty typed cache per key
\* of the resolved command scope map, and in every reachable state the key
\* set of command_cache equals the key set of command_scope; hence a typed
\* request for a scope key present in command_scope never reaches the
\* "missing command scope for key" panic nor the failing unwrap of the cache
\* lookup.
C26_CachePerScopeKey ==
  /\ DOMAIN command_cache = DOMAIN command_scope
  /\ calls = 0 => \A k \in DOMAIN command_cache : command_cache[k] = EmptyTypeMap
  /\ \A c \in Callers :
       IsCommandCall(c) /\ callers[c].key \in DOMAIN command_scope =>
         callers[c].panic \notin {"missing command scope for key", "unwrap on None"}

\* C26 happens: a request for a declared scope key went through the cache
\* lookup and the raw scope lookup and returned its value, while a request
\* for an undeclared key stopped at the unwrap.
C26_Witness ==
  \E c \in Callers, d \in Callers :
    /\ IsCommandCall(c) /\ callers[c].key \in DOMAIN command_scope
    /\ ReturnedOk(c) /\ ~callers[c].hit
    /\ IsSome(command_cache[callers[c].key][callers[c].type])
    /\ IsCommandCall(d) /\ callers[d].key \notin DOMAIN command_scope
    /\ callers[d].pc = "panicked" /\ callers[d].panic = "unwrap on None"

=============================================================================
